---- MODULE Spec2Model ----
(***************************************************************************)
(* Businesses/reviews REST service (main.py).  The MySQL store is the only *)
(* state; every handler is a short sequence of SQL statements, and         *)
(* concurrent requests interleave between statements.  An INSERT, UPDATE   *)
(* or DELETE together with the commit() that follows it is one atomic      *)
(* step: InnoDB row locks make a conflicting statement wait for the commit.*)
(***************************************************************************)
EXTENDS Integers, Sequences, FiniteSets, TLC

VARIABLES businesses, reviews, next_business_id, next_review_id,
          pc, req, local, resp, deleted, workload, page_req, page_resp, page_hops

vars == <<businesses, reviews, next_business_id, next_review_id,
          pc, req, local, resp, deleted, workload, page_req, page_resp, page_hops>>

env == <<workload, page_req, page_resp, page_hops>>

store == <<businesses, reviews, next_business_id, next_review_id>>

(* ---------------------------- bounds ----------------------------------- *)
MaxBusinesses == 2
MaxReviews == 2

Procs == {"c1", "c2"}
BusinessIds == 1..MaxBusinesses
ReviewIds == 1..MaxReviews
UserIds == {1, 2}

(* --------------------------- constants --------------------------------- *)
REQUIRED_BUSINESS_FIELDS ==
  {"owner_id", "name", "street_address", "city", "state", "zip_code"}
REQUIRED_REVIEW_FIELDS == {"user_id", "business_id", "stars"}

ERROR_BUSINESS_NOT_FOUND == [Error |-> "No business with this business_id exists"]
ERROR_REVIEW_NOT_FOUND == [Error |-> "No review with this review_id exists"]
MISSING_ATTRIBUTES ==
  [Error |-> "The request body is missing at least one of the required attributes"]
INVALID_REVIEW == [Error |-> "Invalid review data"]
DUPLICATE_REVIEW == [Error |-> "You have already submitted a review for this business."]
UNABLE_BUSINESS == [Error |-> "Unable to create business"]
UNABLE_REVIEW == [Error |-> "Unable to create review"]
EMPTY_BODY == [text |-> ""]
UNHANDLED == [unhandled |-> "NoResultFound"]

\* CONSTRAINT ck_stars CHECK (stars BETWEEN 0 AND 5)
MinStars == 0
MaxStars == 5
\* faulty variant: no upper end
ck_stars_no_upper(stars) == MinStars <= stars

ck_stars(stars) == MinStars <= stars /\ stars <= MaxStars

(* ------------------------- request inputs ------------------------------ *)
Cafe ==
  [owner_id |-> 1, name |-> "Cafe", street_address |-> "1 Main St",
   city |-> "Corvallis", state |-> "OR", zip_code |-> <<9, 7, 3, 3, 0>>]
Deli ==
  [owner_id |-> 2, name |-> "Deli", street_address |-> "2 Elm St",
   city |-> "Boston", state |-> "MA", zip_code |-> <<0, 2, 1, 3, 9>>]
BusinessContents == {Cafe, Deli, [owner_id |-> 1, name |-> "Cafe"]}

StarsInputs == {MinStars - 1, MinStars, MaxStars, MaxStars + 1}
PostStarsInputs == {MaxStars, MaxStars + 1}
TextInputs == {"great"}

\* the businesses a store that already holds rows starts with
SomeBusinesses == (1 :> Cafe) @@ (2 :> Deli)

ReviewPostContents ==
  [user_id : UserIds, business_id : DOMAIN SomeBusinesses, stars : PostStarsInputs]
  \cup [user_id : {1}, business_id : {1}, stars : {MaxStars}, review_text : TextInputs]
  \cup [user_id : {1}, business_id : {1}]

ReviewPutContents ==
  [stars : StarsInputs] \cup [stars : StarsInputs, review_text : TextInputs]
  \cup [review_text : TextInputs]

(* ----------------------------- helpers --------------------------------- *)
None == "None"

has_required_fields(data, required_fields) ==
  IF \E field \in required_fields : field \notin DOMAIN data
  THEN CHOOSE field \in required_fields : field \notin DOMAIN data
  ELSE None

RECURSIVE int(_)
\* int("97330"): the decimal value of a digit string
int(digits) ==
  IF digits = <<>> THEN 0
  ELSE 10 * int(SubSeq(digits, 1, Len(digits) - 1)) + digits[Len(digits)]

business_row(id) == [business_id |-> id] @@ businesses[id]
review_row(id) == [review_id |-> id] @@ reviews[id]

row_to_business_dict(d) ==
  [id |-> d.business_id, owner_id |-> d.owner_id, name |-> d.name,
   street_address |-> d.street_address, city |-> d.city, state |-> d.state,
   zip_code |-> int(d.zip_code), self |-> <<"businesses", d.business_id>>]

row_to_review_dict(d) ==
  [id |-> d.review_id, user_id |-> d.user_id,
   business |-> <<"businesses", d.business_id>>, stars |-> d.stars,
   review_text |-> d.review_text, self |-> <<"reviews", d.review_id>>]

Drop(f, S) == [k \in (DOMAIN f) \ S |-> f[k]]

NoReq == [op |-> "none"]
NoResp == [status |-> 0]
Reply(status, body) == [status |-> status, body |-> body]

Finish(p, status, body) ==
  /\ pc' = [pc EXCEPT ![p] = "done"]
  /\ resp' = [resp EXCEPT ![p] = Reply(status, body)]

Goto(p, label) ==
  /\ pc' = [pc EXCEPT ![p] = label]
  /\ resp' = resp

(* --------------------------- initial state ----------------------------- *)
\* The request mixes the clients send.  create_tables is CREATE TABLE IF NOT
\* EXISTS, so the service may start on a store that already holds rows.
Workloads == {"businesses", "post_reviews", "edit_reviews"}

Menu ==
  CASE workload = "businesses" -> {"post_business", "edit_business", "delete_business"}
    [] workload = "post_reviews" ->
         {"post_reviews", "delete_business", "delete_review"}
    [] workload = "edit_reviews" ->
         {"edit_review", "delete_business", "delete_review", "get_review_by_id"}

SomeReviews ==
  (1 :> [user_id |-> 1, business_id |-> 1, stars |-> MinStars, review_text |-> ""])
  @@ (2 :> [user_id |-> 1, business_id |-> 2, stars |-> MaxStars,
            review_text |-> "great"])

Init ==
  /\ workload \in Workloads
  /\ businesses = IF workload = "businesses" THEN <<>> ELSE SomeBusinesses
  /\ next_business_id = IF workload = "businesses" THEN 1 ELSE 3
  /\ reviews = IF workload = "edit_reviews" THEN SomeReviews ELSE <<>>
  /\ next_review_id = IF workload = "edit_reviews" THEN 3 ELSE 1
  /\ pc = [p \in Procs |-> "idle"]
  /\ req = [p \in Procs |-> NoReq]
  /\ local = [p \in Procs |-> 0]
  /\ resp = [p \in Procs |-> NoResp]
  /\ deleted = {}
  /\ page_req = <<>>
  /\ page_resp = <<>>
  /\ page_hops = 0

(* ---------------------------- the store -------------------------------- *)
\* faulty variant: the next id is one more than the largest id present
auto_increment_after_max(rows, counter) ==
  IF DOMAIN rows = {} THEN 1
  ELSE (CHOOSE i \in DOMAIN rows : \A j \in DOMAIN rows : j <= i) + 1

\* INT AUTO_INCREMENT PRIMARY KEY: the id given to an inserted row
auto_increment(rows, counter) == counter

\* faulty variant: no ON DELETE CASCADE
no_cascade(business_id) == reviews

\* fk_reviews_business ... ON DELETE CASCADE: table reviews after the parent row goes
on_delete_cascade(business_id) ==
  Drop(reviews, {r \in DOMAIN reviews : reviews[r].business_id = business_id})

(* ------------------------- business handlers --------------------------- *)
\* post_business: validation, INSERT, LAST_INSERT_ID, commit
PostBusinessInsert(p) ==
  /\ pc[p] = "idle"
  /\ "post_business" \in Menu
  /\ \E content \in BusinessContents :
       /\ req' = [req EXCEPT ![p] = [op |-> "post_business", content |-> content]]
       /\ IF has_required_fields(content, REQUIRED_BUSINESS_FIELDS) # None
          THEN /\ Finish(p, 400, MISSING_ATTRIBUTES)
               /\ UNCHANGED <<store, local, deleted, env>>
          ELSE /\ next_business_id <= MaxBusinesses
               /\ LET new_id == auto_increment(businesses, next_business_id)
                  IN /\ businesses' = (new_id :> content) @@ businesses
                     /\ local' = [local EXCEPT ![p] = new_id]
               /\ next_business_id' = next_business_id + 1
               /\ Goto(p, "pb_read")
               /\ UNCHANGED <<reviews, next_review_id, deleted, env>>

\* post_business: SELECT ... WHERE business_id = :id  .one()
PostBusinessRead(p) ==
  /\ pc[p] = "pb_read"
  /\ IF local[p] \in DOMAIN businesses
     THEN Finish(p, 201, row_to_business_dict(business_row(local[p])))
     ELSE Finish(p, 500, UNABLE_BUSINESS)
  /\ UNCHANGED <<store, req, local, deleted, env>>

\* edit_business: validation and existence check
EditBusinessCheck(p) ==
  /\ pc[p] = "idle"
  /\ "edit_business" \in Menu
  /\ \E id \in BusinessIds, content \in BusinessContents :
       /\ req' = [req EXCEPT ![p] =
                    [op |-> "edit_business", id |-> id, content |-> content]]
       /\ IF has_required_fields(content, REQUIRED_BUSINESS_FIELDS) # None
          THEN Finish(p, 400, MISSING_ATTRIBUTES)
          ELSE IF id \notin DOMAIN businesses
               THEN Finish(p, 404, ERROR_BUSINESS_NOT_FOUND)
               ELSE Goto(p, "eb_update")
  /\ UNCHANGED <<store, local, deleted, env>>

\* edit_business: UPDATE businesses SET ... WHERE business_id=:id; commit
EditBusinessUpdate(p) ==
  /\ pc[p] = "eb_update"
  /\ businesses' = [id \in DOMAIN businesses |->
                      IF id = req[p].id THEN req[p].content ELSE businesses[id]]
  /\ Goto(p, "eb_read")
  /\ UNCHANGED <<reviews, next_business_id, next_review_id, req, local, deleted, env>>

\* edit_business: re-read with .one(); NoResultFound is not caught
EditBusinessRead(p) ==
  /\ pc[p] = "eb_read"
  /\ IF req[p].id \in DOMAIN businesses
     THEN Finish(p, 200, row_to_business_dict(business_row(req[p].id)))
     ELSE Finish(p, 500, UNHANDLED)
  /\ UNCHANGED <<store, req, local, deleted, env>>

\* delete_business: DELETE (with ON DELETE CASCADE on reviews), commit
DeleteBusiness(p) ==
  /\ pc[p] = "idle"
  /\ "delete_business" \in Menu
  /\ \E id \in BusinessIds :
       /\ req' = [req EXCEPT ![p] = [op |-> "delete_business", id |-> id]]
       /\ IF id \in DOMAIN businesses
          THEN /\ businesses' = Drop(businesses, {id})
               /\ reviews' = on_delete_cascade(id)
               /\ deleted' = deleted \cup {<<"businesses", id>>}
               /\ Finish(p, 204, EMPTY_BODY)
          ELSE /\ UNCHANGED <<businesses, reviews, deleted>>
               /\ Finish(p, 404, ERROR_BUSINESS_NOT_FOUND)
  /\ UNCHANGED <<next_business_id, next_review_id, local, env>>

(* --------------------------- review handlers --------------------------- *)
\* the text of the IntegrityError the store raises, as the words the handler looks for
IntegrityMessage(kind) ==
  CASE kind = "duplicate" -> {"duplicate entry", "duplicate", "uq_user_business"}
    [] kind = "foreign_key" -> {"foreign key constraint fails", "fk_reviews_business"}
    [] kind = "check" -> {"check constraint", "ck_stars"}

\* except IntegrityError in post_reviews: 409 for the unique pair, else 400
ClassifyIntegrityError(msg) ==
  IF "uq_user_business" \in msg \/ "duplicate" \in msg \/ "unique" \in msg
  THEN Reply(409, DUPLICATE_REVIEW)
  ELSE Reply(400, INVALID_REVIEW)

\* faulty variant: no uq_user_business
InsertViolationsNoUnique(row) ==
  {k \in {"check"} : ~ck_stars(row.stars)}
  \cup {k \in {"foreign_key"} : row.business_id \notin DOMAIN businesses}

\* the constraints of table reviews an INSERT of this row would violate
InsertViolations(row) ==
  {k \in {"check"} : ~ck_stars(row.stars)}
  \cup {k \in {"duplicate"} :
          \E r \in DOMAIN reviews : /\ reviews[r].user_id = row.user_id
                                    /\ reviews[r].business_id = row.business_id}
  \cup {k \in {"foreign_key"} : row.business_id \notin DOMAIN businesses}

\* content.get("review_text", "")
ReviewTextOf(content) ==
  IF "review_text" \in DOMAIN content THEN content.review_text ELSE ""

\* post_reviews: validation and the explicit business existence check
PostReviewsCheck(p) ==
  /\ pc[p] = "idle"
  /\ "post_reviews" \in Menu
  /\ \E content \in ReviewPostContents :
       /\ req' = [req EXCEPT ![p] =
                    [op |-> "post_reviews", content |-> content,
                     \* history: no review of this pair when the handler began
                     fresh |-> ~\E r \in DOMAIN reviews :
                                 /\ "user_id" \in DOMAIN content
                                 /\ reviews[r].user_id = content.user_id
                                 /\ reviews[r].business_id = content.business_id]]
       /\ IF has_required_fields(content, REQUIRED_REVIEW_FIELDS) # None
          THEN Finish(p, 400, MISSING_ATTRIBUTES)
          ELSE IF content.business_id \notin DOMAIN businesses
               THEN Finish(p, 404, ERROR_BUSINESS_NOT_FOUND)
               ELSE Goto(p, "pr_insert")
  /\ UNCHANGED <<store, local, deleted, env>>

\* post_reviews: INSERT INTO reviews, LAST_INSERT_ID, commit; IntegrityError handler
\* (a row that violates several constraints fails on any one of them)
PostReviewsInsert(p) ==
  /\ pc[p] = "pr_insert"
  /\ LET content == req[p].content
         row == [user_id |-> content.user_id, business_id |-> content.business_id,
                 stars |-> content.stars, review_text |-> ReviewTextOf(content)]
     IN IF InsertViolations(row) = {}
        THEN /\ next_review_id <= MaxReviews
             /\ LET new_id == auto_increment(reviews, next_review_id)
                IN /\ reviews' = (new_id :> row) @@ reviews
                   /\ local' = [local EXCEPT ![p] = new_id]
             /\ next_review_id' = next_review_id + 1
             /\ Goto(p, "pr_read")
        ELSE /\ \E kind \in InsertViolations(row) :
                  /\ pc' = [pc EXCEPT ![p] = "done"]
                  /\ resp' = [resp EXCEPT ![p] =
                                ClassifyIntegrityError(IntegrityMessage(kind))]
             /\ UNCHANGED <<reviews, next_review_id, local>>
  /\ UNCHANGED <<businesses, next_business_id, req, deleted, env>>

\* post_reviews: re-read with .one(); NoResultFound falls to except Exception
PostReviewsRead(p) ==
  /\ pc[p] = "pr_read"
  /\ IF local[p] \in DOMAIN reviews
     THEN Finish(p, 201, row_to_review_dict(review_row(local[p])))
     ELSE Finish(p, 500, UNABLE_REVIEW)
  /\ UNCHANGED <<store, req, local, deleted, env>>

\* get_review_by_id
get_review_by_id(review_id) ==
  IF review_id \in DOMAIN reviews
  THEN Reply(200, row_to_review_dict(review_row(review_id)))
  ELSE Reply(404, ERROR_REVIEW_NOT_FOUND)

GetReviewById(p) ==
  /\ pc[p] = "idle"
  /\ "get_review_by_id" \in Menu
  /\ \E id \in ReviewIds :
       /\ req' = [req EXCEPT ![p] = [op |-> "get_review_by_id", id |-> id]]
       /\ pc' = [pc EXCEPT ![p] = "done"]
       /\ resp' = [resp EXCEPT ![p] = get_review_by_id(id)]
  /\ UNCHANGED <<store, local, deleted, env>>

\* edit_review: "stars" required, then the existence check
EditReviewCheck(p) ==
  /\ pc[p] = "idle"
  /\ "edit_review" \in Menu
  /\ \E id \in ReviewIds, content \in ReviewPutContents :
       /\ req' = [req EXCEPT ![p] =
                    [op |-> "edit_review", id |-> id, content |-> content]]
       /\ IF "stars" \notin DOMAIN content
          THEN Finish(p, 400, MISSING_ATTRIBUTES)
          ELSE IF id \notin DOMAIN reviews
               THEN Finish(p, 404, ERROR_REVIEW_NOT_FOUND)
               ELSE Goto(p, "er_update")
  /\ UNCHANGED <<store, local, deleted, env>>

\* faulty variant: an absent review_text is written as the default
UpdatedReviewDefaultText(old, content) ==
  [old EXCEPT !.stars = content.stars, !.review_text = ReviewTextOf(content)]

\* the row an UPDATE of edit_review writes over the old one
UpdatedReview(old, content) ==
  IF "review_text" \in DOMAIN content
  THEN [old EXCEPT !.stars = content.stars, !.review_text = content.review_text]
  ELSE [old EXCEPT !.stars = content.stars]

\* edit_review: UPDATE reviews ... WHERE review_id = :id; commit; except IntegrityError
EditReviewUpdate(p) ==
  /\ pc[p] = "er_update"
  /\ LET id == req[p].id
         content == req[p].content
     IN IF id \in DOMAIN reviews /\ ~ck_stars(content.stars)
        THEN /\ Finish(p, 400, INVALID_REVIEW)
             /\ reviews' = reviews
        ELSE /\ reviews' = [r \in DOMAIN reviews |->
                              IF r = id THEN UpdatedReview(reviews[r], content)
                              ELSE reviews[r]]
             /\ Goto(p, "er_read")
  /\ UNCHANGED <<businesses, next_business_id, next_review_id, req, local, deleted, env>>

\* edit_review: re-read with .one(); NoResultFound is not caught
EditReviewRead(p) ==
  /\ pc[p] = "er_read"
  /\ IF req[p].id \in DOMAIN reviews
     THEN Finish(p, 200, row_to_review_dict(review_row(req[p].id)))
     ELSE Finish(p, 500, UNHANDLED)
  /\ UNCHANGED <<store, req, local, deleted, env>>

\* delete_review: DELETE FROM reviews WHERE review_id = :id; commit
DeleteReview(p) ==
  /\ pc[p] = "idle"
  /\ "delete_review" \in Menu
  /\ \E id \in ReviewIds :
       /\ req' = [req EXCEPT ![p] = [op |-> "delete_review", id |-> id]]
       /\ IF id \in DOMAIN reviews
          THEN /\ reviews' = Drop(reviews, {id})
               /\ deleted' = deleted \cup {<<"reviews", id>>}
               /\ Finish(p, 204, EMPTY_BODY)
          ELSE /\ UNCHANGED <<reviews, deleted>>
               /\ Finish(p, 404, ERROR_REVIEW_NOT_FOUND)
  /\ UNCHANGED <<businesses, next_business_id, next_review_id, local, env>>

\* a finished request leaves; the client may send another
Return(p) ==
  /\ pc[p] = "done"
  /\ pc' = [pc EXCEPT ![p] = "idle"]
  /\ req' = [req EXCEPT ![p] = NoReq]
  /\ resp' = [resp EXCEPT ![p] = NoResp]
  /\ local' = [local EXCEPT ![p] = 0]
  /\ UNCHANGED <<store, deleted, env>>

Next ==
  \E p \in Procs :
    \/ PostBusinessInsert(p)
    \/ PostBusinessRead(p)
    \/ EditBusinessCheck(p)
    \/ EditBusinessUpdate(p)
    \/ EditBusinessRead(p)
    \/ DeleteBusiness(p)
    \/ PostReviewsCheck(p)
    \/ PostReviewsInsert(p)
    \/ PostReviewsRead(p)
    \/ GetReviewById(p)
    \/ EditReviewCheck(p)
    \/ EditReviewUpdate(p)
    \/ EditReviewRead(p)
    \/ DeleteReview(p)
    \/ Return(p)

Spec == Init /\ [][Next]_vars

(* ------------------------------ claims --------------------------------- *)
Done(p, op) == pc[p] = "done" /\ req[p].op = op
\* process p answers a request op in this step
Answers(p, op) == pc[p] # "done" /\ pc'[p] = "done" /\ req'[p].op = op
HasPair(user_id, business_id) ==
  \E r \in DOMAIN reviews :
    reviews[r].user_id = user_id /\ reviews[r].business_id = business_id
StoreUnchanged == businesses' = businesses /\ reviews' = reviews

\* C1: after DELETE /businesses/{id} answers 204 no review of that business is
\* in the store, then or later: GET /reviews/{r} is 404 for each of them, and
\* the reviews of other businesses are untouched.
C1_CascadeDelete ==
  /\ [](\A r \in DOMAIN reviews :
          <<"businesses", reviews[r].business_id>> \notin deleted)
  /\ [][\A p \in Procs :
          (Answers(p, "delete_business") /\ resp'[p].status = 204) =>
            /\ DOMAIN reviews' \subseteq DOMAIN reviews
            /\ \A r \in DOMAIN reviews :
                 IF reviews[r].business_id = req'[p].id
                 THEN get_review_by_id(r)'.status = 404
                 ELSE r \in DOMAIN reviews' /\ reviews'[r] = reviews[r]]_vars

\* a DELETE answered 204 that removed a review by the cascade and left another
C1_Witness ==
  \E p \in Procs :
    /\ Done(p, "delete_business") /\ resp[p].status = 204
    /\ reviews # <<>>
    /\ \E r \in ReviewIds :
         /\ r < next_review_id /\ r \notin DOMAIN reviews
         /\ <<"reviews", r>> \notin deleted

UniquePair ==
  \A r1, r2 \in DOMAIN reviews :
    (reviews[r1].user_id = reviews[r2].user_id
       /\ reviews[r1].business_id = reviews[r2].business_id) => r1 = r2

\* C2 as stated: the INSERT of a POST /reviews for a pair that already has a
\* review answers 409 and leaves the store unchanged
C2_DuplicateIs409 ==
  [][\A p \in Procs :
       (pc[p] = "pr_insert" /\ pc'[p] # "pr_insert"
          /\ HasPair(req[p].content.user_id, req[p].content.business_id))
         => (resp'[p].status = 409 /\ StoreUnchanged)]_vars

BothPosted(p, q) ==
  /\ p # q /\ Done(p, "post_reviews") /\ Done(q, "post_reviews")
  /\ REQUIRED_REVIEW_FIELDS \subseteq DOMAIN req[p].content
  /\ REQUIRED_REVIEW_FIELDS \subseteq DOMAIN req[q].content
  /\ req[p].content.user_id = req[q].content.user_id
  /\ req[p].content.business_id = req[q].content.business_id
  /\ req[p].content.stars \in 0..5 /\ req[q].content.stars \in 0..5

\* C2 amended: at most one review per (user_id, business_id); a POST /reviews
\* with stars in 0..5 for a pair that has a review answers 409, and with any
\* stars it answers 409 or 400, the store unchanged; two racing POSTs with stars
\* in 0..5 for an unused pair of an existing business, with no delete, answer
\* one 201 and the other 409.
C2_OnePerPair ==
  /\ []UniquePair
  /\ [][\A p \in Procs :
          (pc[p] = "pr_insert" /\ pc'[p] # "pr_insert"
             /\ HasPair(req[p].content.user_id, req[p].content.business_id))
            => /\ StoreUnchanged
               /\ resp'[p].status \in {400, 409}
               /\ req[p].content.stars \in 0..5 => resp'[p].status = 409]_vars
  /\ [](\A p, q \in Procs :
          (BothPosted(p, q) /\ req[p].fresh /\ req[q].fresh /\ deleted = {}
             /\ req[p].content.business_id \in DOMAIN businesses)
            => {resp[p].status, resp[q].status} = {201, 409})

\* two POSTs of one pair that both passed the existence check: 201 and 409
C2_Witness ==
  \E p, q \in Procs :
    /\ BothPosted(p, q) /\ req[p].fresh /\ req[q].fresh /\ deleted = {}
    /\ resp[p].status = 201 /\ resp[q].status = 409

\* C3, on the requests with stars in 0..5: a POST /reviews with all required
\* fields whose business_id names no business in the store answers 404 and
\* inserts nothing, also when the business went between the existence check
\* and the INSERT
C3_MissingBusinessIs404 ==
  [][\A p \in Procs :
       (Answers(p, "post_reviews")
          /\ REQUIRED_REVIEW_FIELDS \subseteq DOMAIN req'[p].content
          /\ req'[p].content.stars \in 0..5
          /\ req'[p].content.business_id \notin DOMAIN businesses)
         => (resp'[p].status = 404 /\ StoreUnchanged)]_vars

C5_UpdateFrame ==
  [][\A p \in Procs :
       (req'[p].op = "edit_review" /\ pc'[p] # pc[p]) =>
         /\ businesses' = businesses
         /\ DOMAIN reviews' = DOMAIN reviews
         /\ \A r \in DOMAIN reviews :
              IF pc[p] = "er_update" /\ pc'[p] = "er_read" /\ r = req[p].id
              THEN /\ reviews'[r].stars = req[p].content.stars
                   /\ reviews'[r].review_text =
                        IF "review_text" \in DOMAIN req[p].content
                        THEN req[p].content.review_text
                        ELSE reviews[r].review_text
                   /\ reviews'[r].user_id = reviews[r].user_id
                   /\ reviews'[r].business_id = reviews[r].business_id
              ELSE reviews'[r] = reviews[r]]_vars

\* a PUT with only stars answered 200: new stars, the text it had before
C5_Witness ==
  \E p \in Procs :
    /\ Done(p, "edit_review") /\ resp[p].status = 200
    /\ "review_text" \notin DOMAIN req[p].content
    /\ req[p].id = 2
    /\ resp[p].body.stars = MinStars /\ resp[p].body.review_text = "great"

\* C8: a DELETE of an id that is not in the store answers 404 and leaves the
\* store unchanged; a DELETE answers 204 at most once for an id; a deleted id
\* is never the id of a row again.
C8_DeleteOnce ==
  /\ [](\A d \in deleted :
          d[2] \notin (IF d[1] = "businesses" THEN DOMAIN businesses
                       ELSE DOMAIN reviews))
  /\ [][\A p \in Procs :
          /\ Answers(p, "delete_business") =>
               /\ req'[p].id \notin DOMAIN businesses
                    => (resp'[p].status = 404 /\ StoreUnchanged)
               /\ resp'[p].status = 204
                    => <<"businesses", req'[p].id>> \notin deleted
          /\ Answers(p, "delete_review") =>
               /\ req'[p].id \notin DOMAIN reviews
                    => (resp'[p].status = 404 /\ StoreUnchanged)
               /\ resp'[p].status = 204
                    => <<"reviews", req'[p].id>> \notin deleted]_vars

\* two DELETEs of one business, 204 and 404, with a later business in the store
C8_Witness ==
  \E p, q \in Procs :
    /\ Done(p, "delete_business") /\ resp[p].status = 204
    /\ Done(q, "delete_business") /\ resp[q].status = 404
    /\ req[p].id = req[q].id
    /\ \E id \in DOMAIN businesses : id > req[p].id

\* C9: a PUT /businesses/{id} with all six fields and a PUT /reviews/{id} with
\* stars in 0..5 answer 404 or 200, never an unhandled failure
C9_EditAnswers200Or404 ==
  \A p \in Procs :
    /\ (Done(p, "edit_business")
          /\ REQUIRED_BUSINESS_FIELDS \subseteq DOMAIN req[p].content)
         => resp[p].status \in {200, 404}
    /\ (Done(p, "edit_review") /\ "stars" \in DOMAIN req[p].content
          /\ req[p].content.stars \in 0..5)
         => resp[p].status \in {200, 404}

(* ----------------------------- pagination ------------------------------ *)
MaxPageBusinesses == 5
MaxLimit == 4
MaxOffset == 5
MaxNegative == 2
\* the count of followed links saturates above any chain a full store allows
MaxHops == MaxPageBusinesses + 1

DefaultLimit == 3
DefaultOffset == 0

Max(a, b) == IF a >= b THEN a ELSE b
Min(a, b) == IF a <= b THEN a ELSE b

\* rows[:k] of a Python list
SliceTo(rows, k) ==
  IF k >= 0 THEN SubSeq(rows, 1, Min(k, Len(rows)))
  ELSE SubSeq(rows, 1, Max(Len(rows) + k, 0))

RECURSIVE OrderByBusinessId(_)
\* SELECT ... FROM businesses ORDER BY business_id
OrderByBusinessId(ids) ==
  IF ids = {} THEN <<>>
  ELSE LET least == CHOOSE i \in ids : \A j \in ids : i <= j
       IN <<business_row(least)>> \o OrderByBusinessId(ids \ {least})

\* ... LIMIT :limit OFFSET :offset
LimitOffset(rows, limit, offset) ==
  SubSeq(rows, offset + 1, Min(offset + limit, Len(rows)))

\* request.args.get(name, type=int) for both parameters, with the default page
PageLimit(args) ==
  IF "limit" \in DOMAIN args /\ "offset" \in DOMAIN args
  THEN args.limit ELSE DefaultLimit
PageOffset(args) ==
  IF "limit" \in DOMAIN args /\ "offset" \in DOMAIN args
  THEN args.offset ELSE DefaultOffset

\* faulty variant: the next link repeats the offset of the page
NextLinkSamePage(offset, limit) == [offset |-> offset - limit, limit |-> limit]

\* url_for('get_businesses', offset=..., limit=...)
NextLink(offset, limit) == [offset |-> offset, limit |-> limit]

\* faulty variant: the extra row is not fetched
get_businesses_no_extra_row(args) ==
  LET limit == PageLimit(args)
      offset == Max(0, PageOffset(args))
      rows == LimitOffset(OrderByBusinessId(DOMAIN businesses), Max(0, limit), offset)
      entries == [i \in DOMAIN SliceTo(rows, limit) |->
                    row_to_business_dict(SliceTo(rows, limit)[i])]
  IN IF Len(rows) > limit
     THEN [entries |-> entries, next |-> NextLink(offset + limit, limit)]
     ELSE [entries |-> entries]

get_businesses(args) ==
  LET limit == PageLimit(args)
      fetch_limit == Max(0, limit) + 1
      offset == Max(0, PageOffset(args))
      rows == LimitOffset(OrderByBusinessId(DOMAIN businesses), fetch_limit, offset)
      entries == [i \in DOMAIN SliceTo(rows, limit) |->
                    row_to_business_dict(SliceTo(rows, limit)[i])]
  IN IF Len(rows) > limit
     THEN [entries |-> entries, next |-> NextLink(offset + limit, limit)]
     ELSE [entries |-> entries]

PageValues == (0 - MaxNegative)..MaxLimit
OffsetValues == (0 - MaxNegative)..MaxOffset
PageArgs ==
  [limit : PageValues, offset : OffsetValues]
  \cup [limit : PageValues] \cup [offset : OffsetValues] \cup {<<>>}

PageStores ==
  {[id \in ids |-> IF id % 2 = 1 THEN Cafe ELSE Deli] :
     ids \in SUBSET (1..MaxPageBusinesses)}

PageInit ==
  /\ workload = "pages"
  /\ businesses \in PageStores
  /\ next_business_id = MaxPageBusinesses + 1
  /\ reviews = <<>>
  /\ next_review_id = 1
  /\ pc = [p \in Procs |-> "idle"]
  /\ req = [p \in Procs |-> NoReq]
  /\ local = [p \in Procs |-> 0]
  /\ resp = [p \in Procs |-> NoResp]
  /\ deleted = {}
  /\ page_req = <<>>
  /\ page_resp = <<>>
  /\ page_hops = 0

HasNext(body) == "next" \in DOMAIN body

\* a client's first GET /businesses
GetBusinesses ==
  /\ page_resp = <<>>
  /\ page_hops = 0
  /\ \E args \in PageArgs :
       /\ page_req' = args
       /\ page_resp' = get_businesses(args)
  /\ UNCHANGED <<store, pc, req, local, resp, deleted, workload, page_hops>>

\* the client requests the URL of the next link of the page it holds
FollowNext ==
  /\ page_resp # <<>>
  /\ HasNext(page_resp)
  /\ page_req' = [limit |-> page_resp.next.limit, offset |-> page_resp.next.offset]
  /\ page_resp' = get_businesses(page_req')
  /\ page_hops' = Min(page_hops + 1, MaxHops)
  /\ UNCHANGED <<store, pc, req, local, resp, deleted, workload>>

PageNext == GetBusinesses \/ FollowNext

(* ------------------------- pagination claims -------------------------- *)
BothGiven == "limit" \in DOMAIN page_req /\ "offset" \in DOMAIN page_req
RequestedLimit == IF BothGiven THEN page_req.limit ELSE 3
RequestedOffset == IF BothGiven THEN page_req.offset ELSE 0
Answered == page_resp # <<>>
SmallerIds(id) == Cardinality({j \in DOMAIN businesses : j < id})

\* C6: with limit >= 1 and offset >= 0 (or a parameter absent: limit 3, offset 0)
\* the entries are the businesses at positions offset .. offset+limit-1 of the
\* ascending-id list, and a next link (offset+limit, same limit) is present
\* exactly when a business exists at position offset+limit.
C6_PageIsWindow ==
  (Answered /\ RequestedLimit >= 1 /\ RequestedOffset >= 0) =>
    LET n == Cardinality(DOMAIN businesses)
        entries == page_resp.entries
    IN /\ Len(entries) = Max(0, Min(RequestedLimit, n - RequestedOffset))
       /\ \A i \in 1..Len(entries) :
            /\ entries[i].id \in DOMAIN businesses
            /\ SmallerIds(entries[i].id) = RequestedOffset + i - 1
            /\ entries[i].owner_id = businesses[entries[i].id].owner_id
            /\ entries[i].name = businesses[entries[i].id].name
       /\ HasNext(page_resp) <=> n > RequestedOffset + RequestedLimit
       /\ HasNext(page_resp) =>
            /\ page_resp.next.offset = RequestedOffset + RequestedLimit
            /\ page_resp.next.limit = RequestedLimit

\* a default first page of three with a fourth business behind it, ids with a gap
C6_Witness ==
  /\ Answered /\ page_req = <<>> /\ HasNext(page_resp)
  /\ Len(page_resp.entries) = 3
  /\ 1 \notin DOMAIN businesses

\* C7: a negative limit answers like limit=0 and a negative offset like offset=0
C7_NegativeClamped ==
  (Answered /\ BothGiven /\ (page_req.limit < 0 \/ page_req.offset < 0)) =>
    LET clamped == get_businesses([limit |-> Max(0, page_req.limit),
                                   offset |-> Max(0, page_req.offset)])
    IN /\ page_resp.entries = clamped.entries
       /\ HasNext(page_resp) <=> HasNext(clamped)
       /\ (HasNext(page_resp) /\ HasNext(clamped)) =>
            /\ page_resp.next.offset = clamped.next.offset
            /\ page_resp.next.limit = clamped.next.limit

\* C10 as stated, on the requests whose limit needs no clamping: every next
\* link addresses a strictly larger offset than the page that returned it
C10_NextOffsetGrows ==
  (Answered /\ RequestedLimit >= 0 /\ HasNext(page_resp))
    => page_resp.next.offset > RequestedOffset

\* C10 amended: with limit >= 1 every next link addresses a strictly larger
\* offset, and a client following next links has followed fewer links than
\* there are businesses, so it reaches a page without a next link
C10_TerminatesForPositiveLimit ==
  (Answered /\ RequestedLimit >= 1) =>
    /\ HasNext(page_resp) => page_resp.next.offset > RequestedOffset
    /\ page_hops >= 1 =>
         /\ page_hops * RequestedLimit <= RequestedOffset
         /\ RequestedOffset < Cardinality(DOMAIN businesses)

\* a client that followed two links with limit >= 1 and holds the last page
C10_Witness ==
  /\ Answered /\ RequestedLimit >= 1 /\ page_hops >= 2
  /\ ~HasNext(page_resp) /\ Len(page_resp.entries) >= 1

SpecPage == PageInit /\ [][PageNext]_vars
====
